---- MODULE Spec2Model ----
(***************************************************************************)
(* Model of the leaf-disease-detection scripts:                            *)
(*   quantization/post_training_quant.py  (convert_to_tflite,              *)
(*       evaluate_tflite_model, benchmark_inference_time, main)            *)
(*   training/model.py                    (create_*_model, get_model,      *)
(*       unfreeze_base_model)                                              *)
(*   training/train.py                    (compile_model, train_model)     *)
(*   training/evaluate.py                 (evaluate_model)                 *)
(* Every script is a sequential program; pc is its position.  A call into  *)
(* the external framework either returns or raises.                        *)
(***************************************************************************)
EXTENDS Integers, Sequences, FiniteSets, TLC

\* ------------------------------------------------------------------ bounds
MaxSamples == 2      \* images in a test directory
NumClasses == 2      \* class sub-directories of a dataset / model outputs
MaxScore == 1        \* raw model output values are 0..MaxScore
NumLayers == 2       \* layers of the backbone
MaxEpochs == 2       \* largest epoch number in a configuration

\* ------------------------------------------------------- program constants
DefaultNumSamples == 100     \* evaluate_tflite_model(num_samples=100)
DefaultFreezeUntilLayer == 100 \* config["training"].get("freeze_until_layer", 100)
DefaultUnfreezeEpoch == 10   \* config["training"].get("unfreeze_epoch", 10)

VARIABLES
  entry,        \* the function or script that was started
  pc,           \* position in the running script
  raised,       \* the exception that ended the script, or "none"
  trace,        \* the steps that have completed, in order
  argv,         \* quantization script: the command line
  args,         \* quantization script: argparse's namespace
  call,         \* parameters of convert_to_tflite
  converter,    \* the TFLiteConverter's settings
  tflite_model, \* what converter.convert() returned
  files,        \* .tflite files on disk, by path
  tflite_path,  \* value returned by convert_to_tflite
  etm,          \* parameters of evaluate_tflite_model
  interp,       \* input/output details of the loaded interpreter
  ds_len,       \* number of images the test dataset yields
  evaluated,    \* the samples the loop has classified: true label, prediction
  correct, total, accuracy,
  bench,        \* benchmark_inference_time has produced a result
  config,       \* training script: the YAML configuration
  layers,       \* trainable flag of each backbone layer (base_model.layers)
  unfreeze_from,\* argument of unfreeze_base_model
  lr,           \* learning rate the model is compiled with
  fits,         \* the model.fit calls made so far
  epoch,        \* next epoch index of the running fit
  saved,        \* formats the final model has been saved in
  class_names,  \* evaluation script: class directories of the test set
  n_images,     \* number of images in the test set
  batch_size,   \* config["dataset"]["batch_size"]
  y_true, y_pred,
  metrics,      \* accuracy and the per-class precision, recall, F1, support
  csv,          \* rows of results/f1_scores.csv
  cm,           \* the confusion matrix
  artifacts,    \* other result files written: the plot, the report
  bm_path,      \* parameter tflite_path of benchmark_inference_time
  cb_config,    \* the configuration dict setup_callbacks is given
  callbacks,    \* setup_callbacks: the list of callbacks built so far
  builder,      \* get_model: the create_*_model function that was called
  data_dir,     \* compute_class_weights: the directory tree it is given
  class_counts, \* compute_class_weights: class index -> number of images
  class_weights,\* compute_class_weights: class index -> weight (a fraction)
  gen_dataset,  \* representative_dataset_generator: images the loader found
  gen_num_samples, \* its parameter num_samples
  gen_fetched,  \* the images the for loop has taken from the dataset
  gen_count,    \* its local count
  gen_yielded,  \* the items it has yielded, in order
  cn_names,     \* save_class_names: the list class_names
  cn_path,      \* the path of the class-name file
  cn_file,      \* the text of the class-name file
  cn_loaded     \* load_class_names: the list it returned

quantVars == <<argv, args, call, converter, tflite_model, files, tflite_path>>
etmVars == <<etm, interp, ds_len, evaluated, correct, total, accuracy, bench>>
ctlVars == <<entry, pc, raised, trace>>
trainVars == <<config, layers, unfreeze_from, lr, fits, epoch, saved>>
evalVars == <<class_names, n_images, batch_size, y_true, y_pred, metrics, csv,
              cm, artifacts>>
callbackVars == <<cb_config, callbacks>>
ccwVars == <<data_dir, class_counts, class_weights>>
genVars == <<gen_dataset, gen_num_samples, gen_fetched, gen_count, gen_yielded>>
cnVars == <<cn_names, cn_path, cn_file, cn_loaded>>
fnVars == <<ccwVars, genVars, cnVars>>
extraVars == <<bm_path, callbackVars, builder, fnVars>>
vars == <<ctlVars, quantVars, etmVars, trainVars, evalVars, extraVars>>

\* ------------------------------------------------------------ Python values
\* None is written "None"; a str is truthy unless it is empty.
Truthy(s) == s \notin {"None", ""}

\* range(n) as a sequence of the ints 0..n-1
Range(n) == [i \in 1..n |-> i - 1]

\* np.argmax of a flat array: the 0-based index of the first maximum
NpArgMax(a) ==
  CHOOSE i \in 0..(Len(a) - 1) :
    /\ \A j \in 1..Len(a) : a[j] <= a[i + 1]
    /\ \A j \in 1..i : a[j] < a[i + 1]

\* os.path.dirname of a path given as its sequence of components
\* (<<"model.tflite">> is a bare file name, <<"/", "tmp", "m.tflite">> absolute)
Dirname(p) == SubSeq(p, 1, Len(p) - 1)

\* (mutant) the exception is caught and the script goes on
Propagate_Caught(next) == next

\* an exception leaves the function: nothing in the scripts catches it
Propagate(next) == "error"

\* ------------------------------------------------------------- input sets
Entries == {"convert_to_tflite", "evaluate_tflite_model", "quant_main",
            "unfreeze_base_model", "train_model", "evaluate_model",
            "setup_callbacks", "get_model", "compute_class_weights",
            "representative_dataset_generator", "class_names"}
Classes == 0..(NumClasses - 1)
OutputPaths == {<<"model.tflite">>, <<"models", "model.tflite">>,
                <<"/", "tmp", "model.tflite">>}
ModelPaths == {"model.h5", "saved_model"}
RepresentativeDirs == {"None", "", "calib"}
TestDirs == {"None", "", "test"}
\* (scale, zero_point) a calibration may give a uint8 tensor
QuantParams == {<<1, 0>>, <<2, 1>>}
\* the values num_samples takes: below, at and above the dataset's size
NumSamplesChoices == (0..MaxSamples) \cup {DefaultNumSamples}
\* raw output tensors of one inference, shape (1, NumClasses)
Outputs == [1..NumClasses -> 0..MaxScore]

NoFile == [exists |-> FALSE, input_dtype |-> "none", output_dtype |-> "none",
           scale |-> 0, zero_point |-> 0]
NoArgs == [model_path |-> "None", output_path |-> <<>>, quantize |-> FALSE,
           representative_data |-> "None", evaluate |-> FALSE,
           test_data |-> "None", benchmark |-> FALSE]
NoCall == [model_path |-> "None", output_path |-> <<>>, quantize |-> FALSE,
           representative_data_dir |-> "None"]
NoEtm == [tflite_path |-> <<>>, test_data_dir |-> "None", num_samples |-> 0]
NoConverter == [optimizations |-> {}, representative_dataset |-> "None",
                supported_ops |-> {}, inference_input_type |-> "none",
                inference_output_type |-> "none"]
NoAccuracy == [set |-> FALSE, num |-> 0, den |-> 1]

\* the .tflite files a conversion can have left on disk
TfliteModels ==
  {[exists |-> TRUE, input_dtype |-> "float32", output_dtype |-> "float32",
    scale |-> 0, zero_point |-> 0]}
  \cup {[exists |-> TRUE, input_dtype |-> "uint8", output_dtype |-> "uint8",
         scale |-> q[1], zero_point |-> q[2]] : q \in QuantParams}

\* ------------------------------------------------ convert_to_tflite pieces
\* tf.lite.TFLiteConverter.from_keras_model(model): the converter's defaults
NewConverter ==
  [optimizations |-> {}, representative_dataset |-> "None",
   supported_ops |-> {"TFLITE_BUILTINS"}, inference_input_type |-> "float32",
   inference_output_type |-> "float32"]

\* (mutant) full-integer settings whenever quantize is set
ConfigureConverter_IgnoreDataset(conv, quantize, representative_data_dir) ==
  IF quantize
  THEN [conv EXCEPT !.optimizations = {"DEFAULT"},
                    !.representative_dataset = representative_data_dir,
                    !.supported_ops = {"TFLITE_BUILTINS_INT8"},
                    !.inference_input_type = "uint8",
                    !.inference_output_type = "uint8"]
  ELSE conv

\* the quantize branch of convert_to_tflite
ConfigureConverter(conv, quantize, representative_data_dir) ==
  IF quantize
  THEN LET c1 == [conv EXCEPT !.optimizations = {"DEFAULT"}]
       IN  IF Truthy(representative_data_dir)
           THEN [c1 EXCEPT !.representative_dataset = representative_data_dir,
                           !.supported_ops = {"TFLITE_BUILTINS_INT8"},
                           !.inference_input_type = "uint8",
                           !.inference_output_type = "uint8"]
           ELSE c1
  ELSE conv

\* the flatbuffers converter.convert() can return for these settings: the
\* model's input and output tensors have the converter's inference types
ConvertResults(conv) ==
  {m \in TfliteModels : /\ m.input_dtype = conv.inference_input_type
                        /\ m.output_dtype = conv.inference_output_type}

\* os.makedirs(d, exist_ok=True) raises FileNotFoundError for the empty path
MakedirsRaises(d) == d = <<>>

\* argparse action="store_true": the flag stores True, its absence the default
StoreTrue(flag_given, default) == IF flag_given THEN TRUE ELSE default
\* parser.add_argument("--quantize", action="store_true", default=True)
QuantizeDefault == TRUE
\* parser.parse_args() of the quantization script
ParseArgs(av) ==
  [model_path |-> av.model_path, output_path |-> av.output_path,
   quantize |-> StoreTrue(av.quantize, QuantizeDefault),
   representative_data |-> av.representative_data,
   evaluate |-> StoreTrue(av.evaluate, FALSE),
   test_data |-> av.test_data,
   benchmark |-> StoreTrue(av.benchmark, FALSE)]

\* where main goes once evaluate_tflite_model is over (or was skipped)
AfterEvaluate(e, a) ==
  IF e = "quant_main" /\ a.benchmark THEN "bm_interpreter" ELSE "done"
AfterConvert_EvaluateOnly(e, a) ==
  IF e = "quant_main"
  THEN IF a.evaluate THEN "etm_interpreter" ELSE AfterEvaluate(e, a)
  ELSE "done"
\* where control goes when convert_to_tflite returns
AfterConvert(e, a) ==
  IF e = "quant_main"
  THEN IF a.evaluate /\ Truthy(a.test_data) THEN "etm_interpreter"
       ELSE AfterEvaluate(e, a)
  ELSE "done"

\* a step that raises: the exception is recorded and control leaves
Raise(exc, next) ==
  /\ raised' = exc
  /\ pc' = Propagate(next)
  /\ UNCHANGED <<entry, trace>>

\* a step that completes
Step(name, next) ==
  /\ pc' = next
  /\ trace' = Append(trace, name)
  /\ UNCHANGED <<entry, raised>>

\* ------------------------------------------------------ training: pieces
\* a configuration key that may be absent: config.get(key, default)
Present(v) == [present |-> TRUE, value |-> v]
Absent(v) == [present |-> FALSE, value |-> v]
Get(key, default) == IF key.present THEN key.value ELSE default

\* str.lower() on the architecture names of the model
Lower(name) ==
  CASE name = "MobileNetV2" -> "mobilenetv2"
    [] name = "MOBILENETV2" -> "mobilenetv2"
    [] name = "EfficientNet" -> "efficientnet"
    [] name = "EFFICIENTNET" -> "efficientnet"
    [] name = "EfficientNet_Lite0" -> "efficientnet_lite0"
    [] OTHER -> name
Architectures == {"MobileNetV2", "efficientnet_lite0", "resnet50"}

\* get_model raises ValueError for a name it does not know
KnownArchitecture(name) ==
  Lower(name) \in {"mobilenetv2", "efficientnet", "efficientnet_lite0"}

\* the names get_model is called with
ArchitectureNames ==
  Architectures \cup
    {"mobilenetv2", "MOBILENETV2", "efficientnet", "EfficientNet",
     "EFFICIENTNET", "EfficientNet_Lite0", "mobilenet", ""}
\* (mutant) the name is compared as it is written
Builder_CaseSensitive(name) ==
  CASE name = "mobilenetv2" -> "create_mobilenetv2_model"
    [] name \in {"efficientnet", "efficientnet_lite0"} ->
         "create_efficientnet_model"
    [] OTHER -> "none"
\* get_model: the create_*_model function the name selects
Builder(name) ==
  CASE Lower(name) = "mobilenetv2" -> "create_mobilenetv2_model"
    [] Lower(name) \in {"efficientnet", "efficientnet_lite0"} ->
         "create_efficientnet_model"
    [] OTHER -> "none"
\* where control goes when get_model returns
AfterGetModel(e, cfg) ==
  IF e = "train_model" THEN "compile" ELSE "done"

\* the YAML files the training script is run with
Configs ==
  [architecture : Architectures,
   freeze_base : {Absent(FALSE), Present(FALSE), Present(TRUE)},
   freeze_until_layer : {Absent(0)} \cup {Present(k) : k \in 0..NumLayers},
   unfreeze_epoch : {Present(e) : e \in 0..MaxEpochs},
   epochs : 0..MaxEpochs,
   formats : SUBSET {"h5", "saved_model"}]
NoConfig ==
  [architecture |-> "None", freeze_base |-> Absent(FALSE),
   freeze_until_layer |-> Absent(0), unfreeze_epoch |-> Present(0),
   epochs |-> 0, formats |-> {}]

\* model.trainable = v sets the flag of every layer of the model
SetTrainable(ls, v) == [i \in DOMAIN ls |-> v]

\* MobileNetV2(...) / EfficientNetB0(...): the layers come trainable
LoadBackbone == [i \in 1..NumLayers |-> TRUE]

\* (mutant) the backbone is left trainable
CreateModel_NotFrozen == LoadBackbone

\* create_*_model: base_model.trainable = False
CreateModel == SetTrainable(LoadBackbone, FALSE)

\* the bound a Python slice [:k] or [k:] uses on a list of n items
SliceIndex(k, n) ==
  IF k < 0 THEN (IF k + n < 0 THEN 0 ELSE k + n)
  ELSE (IF k > n THEN n ELSE k)

\* for layer in base_model.layers[:k]: layer.trainable = False
FreezeHead(ls, k) ==
  [i \in DOMAIN ls |-> IF i <= SliceIndex(k, Len(ls)) THEN FALSE ELSE ls[i]]
\* for layer in base_model.layers[k:]: layer.trainable = True
UnfreezeTail(ls, k) ==
  [i \in DOMAIN ls |-> IF i > SliceIndex(k, Len(ls)) THEN TRUE ELSE ls[i]]

\* (mutant) the loop that freezes the first layers is missing
UnfreezeBaseModel_NoFreeze(ls, k) == UnfreezeTail(SetTrainable(ls, TRUE), k)

\* unfreeze_base_model(base_model, unfreeze_from_layer)
UnfreezeBaseModel(ls, k) ==
  UnfreezeTail(FreezeHead(SetTrainable(ls, TRUE), k), k)

\* sum([layer.trainable for layer in base_model.layers])
TrainableCount(ls) == Cardinality({i \in DOMAIN ls : ls[i]})

\* if config["training"].get("freeze_base", True):
FineTune(cfg) == Get(cfg.freeze_base, TRUE)
\* initial_epochs = config["training"].get("unfreeze_epoch", 10)
InitialEpochs(cfg) == Get(cfg.unfreeze_epoch, DefaultUnfreezeEpoch)

\* (mutant) the final model is saved before the fine-tune phase
TrainNext_SaveBeforeFineTune(p, cfg) ==
  CASE p = "load_config" -> "load_dataset"
    [] p = "load_dataset" -> "get_model"
    [] p = "get_model" -> "compile"
    [] p = "compile" -> "setup_callbacks"
    [] p = "setup_callbacks" -> "fit1"
    [] p = "fit1" -> "save_h5"
    [] p = "save_h5" -> "save_saved_model"
    [] p = "save_saved_model" -> IF FineTune(cfg) THEN "unfreeze"
                                 ELSE "train_return"
    [] p = "unfreeze" -> "recompile"
    [] p = "recompile" -> "fit2"
    [] p = "fit2" -> "train_return"
    [] OTHER -> "done"

\* train_model: the step that follows step p
TrainNext(p, cfg) ==
  CASE p = "load_config" -> "load_dataset"
    [] p = "load_dataset" -> "get_model"
    [] p = "get_model" -> "compile"
    [] p = "compile" -> "setup_callbacks"
    [] p = "setup_callbacks" -> "fit1"
    [] p = "fit1" -> IF FineTune(cfg) THEN "unfreeze" ELSE "save_h5"
    [] p = "unfreeze" -> "recompile"
    [] p = "recompile" -> "fit2"
    [] p = "fit2" -> "save_h5"
    [] p = "save_h5" -> "save_saved_model"
    [] p = "save_saved_model" -> "train_return"
    [] OTHER -> "done"

\* a library call of train_model: it returns or it raises
TrainStep(p) ==
  /\ pc = p
  /\ \/ Step(p, TrainNext(p, config))
     \/ Raise("FrameworkError", TrainNext(p, config))

\* ----------------------------------------------- setup_callbacks: pieces
\* the sections setup_callbacks reads under config["callbacks"]
CallbackNames == {"checkpoint", "early_stopping", "tensorboard", "csv_logger"}
\* a section is a dict; only its optional key "enabled" matters here
SectionDicts == [enabled : {Absent(FALSE), Present(FALSE), Present(TRUE)}]
\* config["callbacks"]: a dict holding any subset of the sections
CallbackDicts == UNION {[S -> SectionDicts] : S \in SUBSET CallbackNames}
\* the configurations setup_callbacks is called with
SetupConfigs ==
  [callbacks : {Absent(<<>>)} \cup {Present(cc) : cc \in CallbackDicts},
   lr_schedule : {Absent("None"), Present("reduce_on_plateau"),
                  Present("cosine")},
   export : BOOLEAN]
NoSetupConfig ==
  [callbacks |-> Absent(<<>>), lr_schedule |-> Absent("None"),
   export |-> FALSE]
\* the callbacks configurations train_model is run with
TrainSetupConfigs ==
  {[callbacks |-> Present([n \in CallbackNames |-> [enabled |-> Absent(FALSE)]]),
    lr_schedule |-> Present("reduce_on_plateau"), export |-> TRUE],
   [callbacks |-> Absent(<<>>), lr_schedule |-> Absent("None"),
    export |-> TRUE]}
\* callback_config = config.get("callbacks", {})
CallbackConfig(cfg) == Get(cfg.callbacks, <<>>)
\* (mutant) a section that is absent is skipped
SectionEnabled_SkipAbsent(cc, name, default) ==
  name \in DOMAIN cc /\ Get(cc[name].enabled, default)
\* callback_config.get(name, {}).get("enabled", default)
SectionEnabled(cc, name, default) ==
  IF name \in DOMAIN cc THEN Get(cc[name].enabled, default) ELSE default
\* callback_config[name] raises KeyError; so does config["export"]
LookupRaises(cfg, name) ==
  \/ name \notin DOMAIN CallbackConfig(cfg)
  \/ name = "checkpoint" /\ ~cfg.export
\* where control goes when setup_callbacks returns
AfterSetup(e, cfg) ==
  IF e = "train_model" THEN TrainNext("setup_callbacks", cfg) ELSE "done"
\* one "if enabled: look the section up, build, append" block
CallbackBlock(at, name, default, makedirs, next) ==
  /\ pc = at
  /\ IF SectionEnabled(CallbackConfig(cb_config), name, default)
     THEN IF LookupRaises(cb_config, name)
          THEN Raise("KeyError", next) /\ UNCHANGED callbacks
          ELSE \/ /\ callbacks' = Append(callbacks, name)
                  /\ pc' = next
                  /\ UNCHANGED <<entry, raised, trace>>
               \/ /\ makedirs
                  /\ Raise("OSError", next)
                  /\ UNCHANGED callbacks
     ELSE /\ pc' = next
          /\ UNCHANGED <<entry, raised, trace, callbacks>>
  /\ UNCHANGED <<bm_path, cb_config, builder, fnVars>>
  /\ UNCHANGED <<quantVars, etmVars, trainVars, evalVars>>

\* ----------------------------------------- compute_class_weights: pieces
\* the names a class directory can have, in the order sorted() puts them
SortedDirNames == <<"blight", "healthy", "rust">>
\* the files a class directory can hold
Files ==
  {[stem |-> "leaf1", ext |-> ".png"], [stem |-> "leaf2", ext |-> ".JPG"],
   [stem |-> "notes", ext |-> ".txt"]}
\* f.lower() on the extensions above
LowerExt(e) ==
  CASE e = ".JPG" -> ".jpg"
    [] e = ".PNG" -> ".png"
    [] OTHER -> e
\* f.lower().endswith((".png", ".jpg", ".jpeg"))
IsImageFile(f) == LowerExt(f.ext) \in {".png", ".jpg", ".jpeg"}
\* an entry of data_dir: a plain file, or a directory with its files
DirEntries ==
  {[is_dir |-> FALSE, files |-> {}]} \cup [is_dir : {TRUE}, files : SUBSET Files]
\* the directory trees compute_class_weights is called on
DataDirs ==
  UNION {[S -> DirEntries] :
           S \in SUBSET {SortedDirNames[i] : i \in DOMAIN SortedDirNames}}
\* sorted([d for d in os.listdir(data_dir) if os.path.isdir(...)])
ClassDirs(dd) ==
  LET IsClassDir(d) == d \in DOMAIN dd /\ dd[d].is_dir
  IN SelectSeq(SortedDirNames, IsClassDir)
\* class_counts[i] = the number of image files of the i-th class directory
ClassCounts(dd) ==
  LET names == ClassDirs(dd)
  IN [i \in 0..(Len(names) - 1) |->
        Cardinality({f \in dd[names[i + 1]].files : IsImageFile(f)})]
\* sum(class_counts.values())
RECURSIVE SumValues(_, _)
SumValues(cc, n) == IF n = 0 THEN 0 ELSE cc[n - 1] + SumValues(cc, n - 1)
\* (mutant) the number of classes is left out of the weight
ClassWeight_NoClasses(tot, n, count) == <<tot, count>>
\* total / (len(class_counts) * count), as numerator and denominator
ClassWeight(tot, n, count) == <<tot, n * count>>
\* the division raises ZeroDivisionError
DivisionRaises(cc) ==
  \E i \in DOMAIN cc : Cardinality(DOMAIN cc) * cc[i] = 0

\* ------------------------------ representative_dataset_generator: pieces
\* the images image_dataset_from_directory finds under data_dir
GenDatasets == {1..k : k \in 0..MaxSamples}
\* the values of num_samples
GenNumSamples == 0..(MaxSamples + 1)
\* images / 255.0 on a batch: each pixel value as a fraction
Normalize(batch) == [i \in DOMAIN batch |-> <<batch[i], 255>>]
\* the dataset's batch of one image (batch_size=1)
BatchOfOne(img) == <<img>>
\* the images of the dataset the loop has not taken yet
NotFetched(ds, fetched) == ds \ {fetched[i] : i \in DOMAIN fetched}
\* (mutant) the loop breaks one item late
BreakNow_Late(c, num_samples) == c > num_samples
\* if count >= num_samples: break
BreakNow(c, num_samples) == c >= num_samples

\* ---------------------------------------------- class-name file: pieces
\* characters: a letter, a space, line feed and carriage return
LF == "LF"
CR == "CR"
SP == "SP"
Chars == {"a", SP, LF, CR}
\* what str.strip() removes
Whitespace == {SP, LF, CR}
\* the most names a list holds
MaxNames == 2
\* the names: the empty one, every single character, a letter with any
\* character before or after it, and a letter on both sides of a space, a
\* line feed or a carriage return
ClassNameChoices ==
  {<<>>} \cup {<<c>> : c \in Chars}
    \cup {<<"a", c>> : c \in Chars} \cup {<<c, "a">> : c \in Chars}
    \cup {<<"a", c, "a">> : c \in {SP, LF, CR}}
ClassNameLists == UNION {[1..k -> ClassNameChoices] : k \in 0..MaxNames}
ClassNamePaths == {<<"class_names.txt">>, <<"..", "models", "class_names.txt">>}
\* for name in class_names: f.write(f"{name}\n")
RECURSIVE WriteNames(_)
WriteNames(names) ==
  IF names = <<>> THEN <<>>
  ELSE Head(names) \o <<LF>> \o WriteNames(Tail(names))
\* reading in text mode: "\r\n" and a lone "\r" both arrive as "\n"
RECURSIVE UniversalNewlines(_)
UniversalNewlines(t) ==
  IF t = <<>> THEN <<>>
  ELSE IF Head(t) = CR
       THEN <<LF>> \o UniversalNewlines(
                        IF Len(t) > 1 /\ t[2] = LF THEN Tail(Tail(t))
                        ELSE Tail(t))
       ELSE <<Head(t)>> \o UniversalNewlines(Tail(t))
\* f.readlines(): the lines with their line feed; cur is the line begun
RECURSIVE ReadLines(_, _)
ReadLines(t, cur) ==
  IF t = <<>> THEN (IF cur = <<>> THEN <<>> ELSE <<cur>>)
  ELSE IF Head(t) = LF
       THEN <<Append(cur, LF)>> \o ReadLines(Tail(t), <<>>)
       ELSE ReadLines(Tail(t), Append(cur, Head(t)))
RECURSIVE LStrip(_)
LStrip(str) ==
  IF str # <<>> /\ Head(str) \in Whitespace THEN LStrip(Tail(str)) ELSE str
RECURSIVE RStrip(_)
RStrip(str) ==
  IF str # <<>> /\ str[Len(str)] \in Whitespace
  THEN RStrip(SubSeq(str, 1, Len(str) - 1)) ELSE str
\* (mutant) the lines are kept as read
Strip_Keep(str) == str
\* line.strip()
Strip(str) == RStrip(LStrip(str))
\* [line.strip() for line in f.readlines()]
LoadNames(text) ==
  LET lines == ReadLines(UniversalNewlines(text), <<>>)
  IN [i \in DOMAIN lines |-> Strip(lines[i])]

\* ---------------------------------------------------- evaluation: pieces
\* dataset.batch_size values of the configuration
BatchSizes == {1, 2}
\* a one-hot label row (label_mode="categorical")
OneHot(label, n) == [i \in 1..n |-> IF i - 1 = label THEN 1 ELSE 0]
\* the classes np.argmax(predictions, axis=1) can give for one image
Predictions == {NpArgMax(o) : o \in Outputs}
\* the labels that occur in y_true or y_pred (sklearn's unique_labels)
UniqueLabels(yt, yp) ==
  {yt[i] : i \in 1..Len(yt)} \cup {yp[i] : i \in 1..Len(yp)}
\* a set of ints as the ascending sequence
SortSet(S) ==
  CHOOSE f \in [1..Cardinality(S) -> S] :
    \A i, j \in 1..Cardinality(S) : i < j => f[i] < f[j]
\* n / d, and 0 where sklearn's zero_division applies
Ratio(n, d) == IF d = 0 THEN <<0, 1>> ELSE <<n, d>>
TruePositives(yt, yp, l) ==
  Cardinality({i \in 1..Len(yt) : yt[i] = l /\ yp[i] = l})
PredictedCount(yp, l) == Cardinality({i \in 1..Len(yp) : yp[i] = l})
SupportCount(yt, l) == Cardinality({i \in 1..Len(yt) : yt[i] = l})

\* accuracy_score(y_true, y_pred)
AccuracyScore(yt, yp) ==
  Ratio(Cardinality({i \in 1..Len(yt) : yt[i] = yp[i]}), Len(yt))

\* the labels= argument of a metric function: given, or None
LabelsArg(values) == [given |-> TRUE, values |-> values]
LabelsNone == [given |-> FALSE, values |-> <<>>]

\* precision_recall_fscore_support(y_true, y_pred, average=None, labels=...)
\* one entry per label: of labels when given, else of the labels that occur
PrecisionRecallFscoreSupport(yt, yp, labels) ==
  LET ls == IF labels.given THEN labels.values
            ELSE SortSet(UniqueLabels(yt, yp))
  IN  [precision |-> [k \in 1..Len(ls) |->
          Ratio(TruePositives(yt, yp, ls[k]), PredictedCount(yp, ls[k]))],
       recall |-> [k \in 1..Len(ls) |->
          Ratio(TruePositives(yt, yp, ls[k]), SupportCount(yt, ls[k]))],
       f1 |-> [k \in 1..Len(ls) |->
          Ratio(2 * TruePositives(yt, yp, ls[k]),
                PredictedCount(yp, ls[k]) + SupportCount(yt, ls[k]))],
       support |-> [k \in 1..Len(ls) |-> SupportCount(yt, ls[k])]]

\* (mutant) the per-class metrics are asked for without labels=
PerClassLabels_None(names) == LabelsNone

\* labels=range(len(class_names))
PerClassLabels(names) == LabelsArg(Range(Len(names)))

\* classification_report(y_true, y_pred, target_names=class_names) raises
\* ValueError when the number of labels that occur is not len(target_names)
ClassificationReportRaises(yt, yp, names) ==
  Cardinality(UniqueLabels(yt, yp)) # Len(names)

\* pd.DataFrame of a dict of columns raises unless all have one length
DataFrameRaises(names, m) ==
  \/ Len(m.precision) # Len(names) \/ Len(m.recall) # Len(names)
  \/ Len(m.f1) # Len(names) \/ Len(m.support) # Len(names)
\* the rows of the table
MetricsTable(names, m) ==
  [i \in 1..Len(names) |->
     [Class |-> names[i], Precision |-> m.precision[i],
      Recall |-> m.recall[i], F1 |-> m.f1[i], Support |-> m.support[i]]]

\* confusion_matrix(y_true, y_pred): rows and columns are the labels that occur
ConfusionMatrix(yt, yp) ==
  LET ls == SortSet(UniqueLabels(yt, yp))
  IN  [set |-> TRUE, labels |-> ls,
       counts |-> [i \in 1..Len(ls) |-> [j \in 1..Len(ls) |->
          Cardinality({k \in 1..Len(yt) : yt[k] = ls[i] /\ yp[k] = ls[j]})]]]

\* evaluate_model: the step that follows step p
EvalNext(p) ==
  CASE p = "em_load_config" -> "em_load_model"
    [] p = "em_load_model" -> "em_load_test"
    [] p = "em_load_test" -> "em_predict"
    [] p = "em_predict" -> "em_metrics"
    [] p = "em_metrics" -> "em_classification_report"
    [] p = "em_classification_report" -> "em_csv"
    [] p = "em_csv" -> "em_confusion_matrix"
    [] p = "em_confusion_matrix" -> "em_plot"
    [] p = "em_plot" -> "em_performance_report"
    [] p = "em_performance_report" -> "em_return"
    [] OTHER -> "done"

\* a library call of evaluate_model: it returns or it raises
EvalStep(p) ==
  /\ pc = p
  /\ \/ Step(p, EvalNext(p))
     \/ Raise("FrameworkError", EvalNext(p))

\* ------------------------------------------------------------------- Init
\* the command lines of the quantization script (flags given or not)
ArgvSet ==
  [model_path : ModelPaths, output_path : OutputPaths, quantize : BOOLEAN,
   representative_data : RepresentativeDirs, evaluate : BOOLEAN,
   test_data : TestDirs, benchmark : BOOLEAN]

InitCtl(e, start) ==
  /\ entry = e /\ pc = start /\ raised = "none" /\ trace = <<>>

InitQuantIdle ==
  /\ argv = NoArgs /\ args = NoArgs /\ call = NoCall
  /\ converter = NoConverter /\ tflite_model = NoFile
  /\ files = [p \in OutputPaths |-> NoFile] /\ tflite_path = <<>>

InitEtmIdle ==
  /\ etm = NoEtm /\ interp = NoFile /\ ds_len = 0 /\ evaluated = <<>>
  /\ correct = 0 /\ total = 0 /\ accuracy = NoAccuracy /\ bench = FALSE

NoMetrics == [set |-> FALSE, accuracy |-> <<0, 1>>, precision |-> <<>>,
              recall |-> <<>>, f1 |-> <<>>, support |-> <<>>]
NoTable == [set |-> FALSE, rows |-> <<>>]
NoMatrix == [set |-> FALSE, labels |-> <<>>, counts |-> <<>>]

InitTrainIdle ==
  /\ config = NoConfig /\ layers = <<>> /\ unfreeze_from = 0 /\ lr = "none"
  /\ fits = <<>> /\ epoch = 0 /\ saved = {}

InitEvalIdle ==
  /\ class_names = <<>> /\ n_images = 0 /\ batch_size = 1
  /\ y_true = <<>> /\ y_pred = <<>> /\ metrics = NoMetrics /\ csv = NoTable
  /\ cm = NoMatrix /\ artifacts = {}

InitBmIdle == bm_path = <<>>
InitCallbacksIdle == cb_config = NoSetupConfig /\ callbacks = <<>>
NoTextFile == [exists |-> FALSE, text |-> <<>>]
InitCcwIdle == data_dir = <<>> /\ class_counts = <<>> /\ class_weights = <<>>
InitGenIdle ==
  /\ gen_dataset = {} /\ gen_num_samples = 0 /\ gen_fetched = <<>>
  /\ gen_count = 0 /\ gen_yielded = <<>>
InitCnIdle ==
  /\ cn_names = <<>> /\ cn_path = <<>> /\ cn_file = NoTextFile
  /\ cn_loaded = <<>>
InitFnIdle == InitCcwIdle /\ InitGenIdle /\ InitCnIdle
InitExtraIdle ==
  /\ InitBmIdle
  /\ InitCallbacksIdle
  /\ builder = "none"
  /\ InitFnIdle

\* convert_to_tflite called with any arguments
InitConvert ==
  /\ InitExtraIdle
  /\ InitTrainIdle /\ InitEvalIdle
  /\ InitCtl("convert_to_tflite", "cv_load")
  /\ argv = NoArgs /\ args = NoArgs
  /\ call \in [model_path : ModelPaths, output_path : OutputPaths,
               quantize : BOOLEAN, representative_data_dir : RepresentativeDirs]
  /\ converter = NoConverter /\ tflite_model = NoFile
  /\ files = [p \in OutputPaths |-> NoFile] /\ tflite_path = <<>>
  /\ InitEtmIdle

\* evaluate_tflite_model called on a .tflite file that is on disk
InitEvaluateTflite ==
  /\ InitExtraIdle
  /\ InitTrainIdle /\ InitEvalIdle
  /\ InitCtl("evaluate_tflite_model", "etm_interpreter")
  /\ argv = NoArgs /\ args = NoArgs /\ call = NoCall
  /\ converter = NoConverter /\ tflite_model = NoFile /\ tflite_path = <<>>
  /\ \E p \in OutputPaths, m \in TfliteModels, n \in NumSamplesChoices :
       /\ files = [q \in OutputPaths |-> IF q = p THEN m ELSE NoFile]
       /\ etm = [tflite_path |-> p, test_data_dir |-> "test", num_samples |-> n]
  /\ interp = NoFile /\ ds_len = 0 /\ evaluated = <<>>
  /\ correct = 0 /\ total = 0 /\ accuracy = NoAccuracy /\ bench = FALSE

\* the quantization script started from the command line
InitQuantMain ==
  /\ InitExtraIdle
  /\ InitTrainIdle /\ InitEvalIdle
  /\ InitCtl("quant_main", "main_parse")
  /\ argv \in ArgvSet
  /\ args = NoArgs /\ call = NoCall
  /\ converter = NoConverter /\ tflite_model = NoFile
  /\ files = [p \in OutputPaths |-> NoFile] /\ tflite_path = <<>>
  /\ InitEtmIdle

\* unfreeze_base_model called on a backbone in any state
InitUnfreeze ==
  /\ InitExtraIdle
  /\ InitCtl("unfreeze_base_model", "unfreeze")
  /\ InitQuantIdle /\ InitEtmIdle /\ InitEvalIdle
  /\ config = NoConfig /\ lr = "none" /\ fits = <<>> /\ epoch = 0 /\ saved = {}
  /\ layers \in [1..NumLayers -> BOOLEAN]
  /\ unfreeze_from \in (-1)..(NumLayers + 1)

\* the training script started with a configuration file
InitTrain ==
  /\ InitBmIdle /\ builder = "none" /\ InitFnIdle
  /\ cb_config \in TrainSetupConfigs /\ callbacks = <<>>
  /\ InitCtl("train_model", "load_config")
  /\ InitQuantIdle /\ InitEtmIdle /\ InitEvalIdle
  /\ config \in Configs
  /\ layers = <<>> /\ unfreeze_from = 0 /\ lr = "none"
  /\ fits = <<>> /\ epoch = 0 /\ saved = {}

\* setup_callbacks called with a configuration
InitSetupCallbacks ==
  /\ InitCtl("setup_callbacks", "setup_callbacks")
  /\ InitQuantIdle /\ InitEtmIdle /\ InitTrainIdle /\ InitEvalIdle
  /\ InitBmIdle /\ builder = "none" /\ InitFnIdle
  /\ cb_config \in SetupConfigs /\ callbacks = <<>>

\* get_model called with an architecture name
InitGetModel ==
  /\ InitExtraIdle
  /\ InitCtl("get_model", "get_model")
  /\ InitQuantIdle /\ InitEtmIdle /\ InitEvalIdle
  /\ \E a \in ArchitectureNames : config = [NoConfig EXCEPT !.architecture = a]
  /\ layers = <<>> /\ unfreeze_from = 0 /\ lr = "none"
  /\ fits = <<>> /\ epoch = 0 /\ saved = {}

\* compute_class_weights called on a directory tree
InitClassWeights ==
  /\ InitCtl("compute_class_weights", "ccw_count")
  /\ InitQuantIdle /\ InitEtmIdle /\ InitTrainIdle /\ InitEvalIdle
  /\ InitBmIdle /\ InitCallbacksIdle /\ builder = "none"
  /\ InitGenIdle /\ InitCnIdle
  /\ data_dir \in DataDirs /\ class_counts = <<>> /\ class_weights = <<>>

\* representative_dataset_generator called and iterated to its end
InitGenerator ==
  /\ InitCtl("representative_dataset_generator", "gen_load")
  /\ InitQuantIdle /\ InitEtmIdle /\ InitTrainIdle /\ InitEvalIdle
  /\ InitBmIdle /\ InitCallbacksIdle /\ builder = "none"
  /\ InitCcwIdle /\ InitCnIdle
  /\ gen_dataset \in GenDatasets /\ gen_num_samples \in GenNumSamples
  /\ gen_fetched = <<>> /\ gen_count = 0 /\ gen_yielded = <<>>

\* save_class_names(names, p) followed by load_class_names(p)
InitClassNames ==
  /\ InitCtl("class_names", "cn_save")
  /\ InitQuantIdle /\ InitEtmIdle /\ InitTrainIdle /\ InitEvalIdle
  /\ InitBmIdle /\ InitCallbacksIdle /\ builder = "none"
  /\ InitCcwIdle /\ InitGenIdle
  /\ cn_names \in ClassNameLists /\ cn_path \in ClassNamePaths
  /\ cn_file = NoTextFile /\ cn_loaded = <<>>

\* the evaluation script started with a model and a configuration file
InitEvaluate ==
  /\ InitExtraIdle
  /\ InitCtl("evaluate_model", "em_load_config")
  /\ InitQuantIdle /\ InitEtmIdle /\ InitTrainIdle
  /\ class_names = <<>> /\ n_images = 0 /\ batch_size \in BatchSizes
  /\ y_true = <<>> /\ y_pred = <<>> /\ metrics = NoMetrics /\ csv = NoTable
  /\ cm = NoMatrix /\ artifacts = {}

Init ==
  \/ InitConvert \/ InitEvaluateTflite \/ InitQuantMain
  \/ InitUnfreeze \/ InitTrain \/ InitEvaluate
  \/ InitSetupCallbacks \/ InitGetModel \/ InitClassWeights
  \/ InitGenerator \/ InitClassNames

\* ------------------------------------------- quantization script: main
\* parse_args, then the call of convert_to_tflite with the parsed values
MainParse ==
  /\ pc = "main_parse"
  /\ UNCHANGED <<trainVars, evalVars, extraVars>>
  /\ args' = ParseArgs(argv)
  /\ call' = [model_path |-> args'.model_path,
              output_path |-> args'.output_path,
              quantize |-> args'.quantize,
              representative_data_dir |-> args'.representative_data]
  /\ Step("parse_args", "cv_load")
  /\ UNCHANGED <<argv, converter, tflite_model, files, tflite_path, etmVars>>

\* ------------------------------------------------------ convert_to_tflite
\* keras.models.load_model(model_path), either branch
CvLoadModel ==
  /\ pc = "cv_load"
  /\ UNCHANGED <<trainVars, evalVars, extraVars>>
  /\ \/ Step("load_model", "cv_configure")
     \/ Raise("OSError", "cv_configure")
  /\ UNCHANGED <<quantVars, etmVars>>

\* from_keras_model and the quantize branch
CvConfigure ==
  /\ pc = "cv_configure"
  /\ UNCHANGED <<trainVars, evalVars, extraVars>>
  /\ converter' = ConfigureConverter(NewConverter, call.quantize,
                                     call.representative_data_dir)
  /\ Step("configure", "cv_convert")
  /\ UNCHANGED <<argv, args, call, tflite_model, files, tflite_path, etmVars>>

\* converter.convert()
CvConvert ==
  /\ pc = "cv_convert"
  /\ UNCHANGED <<trainVars, evalVars, extraVars>>
  /\ \/ /\ \E m \in ConvertResults(converter) : tflite_model' = m
        /\ Step("convert", "cv_save")
     \/ /\ Raise("ConverterError", "cv_save")
        /\ UNCHANGED tflite_model
  /\ UNCHANGED <<argv, args, call, converter, files, tflite_path, etmVars>>

\* os.makedirs(os.path.dirname(output_path), exist_ok=True); open; write
CvSave ==
  /\ pc = "cv_save"
  /\ UNCHANGED <<trainVars, evalVars, extraVars>>
  /\ IF MakedirsRaises(Dirname(call.output_path))
     THEN /\ Raise("FileNotFoundError", "cv_return")
          /\ UNCHANGED files
     ELSE /\ files' = [files EXCEPT ![call.output_path] = tflite_model]
          /\ Step("write", "cv_return")
  /\ UNCHANGED <<argv, args, call, converter, tflite_model, tflite_path, etmVars>>

\* the size report and return output_path; in main, tflite_path = ... and
\* the tests that choose what runs next
CvReturn ==
  /\ pc = "cv_return"
  /\ UNCHANGED <<trainVars, evalVars, extraVars>>
  /\ tflite_path' = call.output_path
  /\ etm' = IF AfterConvert(entry, args) = "etm_interpreter"
            THEN [tflite_path |-> tflite_path',
                  test_data_dir |-> args.test_data,
                  num_samples |-> DefaultNumSamples]
            ELSE etm
  /\ Step("convert_return", AfterConvert(entry, args))
  /\ UNCHANGED <<argv, args, call, converter, tflite_model, files>>
  /\ UNCHANGED <<interp, ds_len, evaluated, correct, total, accuracy, bench>>

\* -------------------------------------------------- evaluate_tflite_model
\* labels of one batch: image_dataset_from_directory is called without
\* label_mode, so labels are class indices of shape (batch_size,) = (1,)
LabelsTensor(label) == <<label>>

\* (output - zero_point) * scale when the output tensor is uint8
Dequantize(out, details) ==
  IF details.output_dtype = "uint8"
  THEN [i \in 1..Len(out) |-> (out[i] - details.zero_point) * details.scale]
  ELSE out

\* predicted_class = np.argmax(output_data)
PredictedClass(out, details) == NpArgMax(Dequantize(out, details))
\* true_class = np.argmax(labels.numpy())
TrueClass(label) == NpArgMax(LabelsTensor(label))

\* the loop ends when the dataset is exhausted or at the break
LoopOver == Len(evaluated) >= ds_len \/ total >= etm.num_samples

\* accuracy = correct / total
Divide(c, t) == [set |-> TRUE, num |-> c, den |-> t]

\* tf.lite.Interpreter(model_path=tflite_path), allocate, read the details
EtmInterpreter ==
  /\ pc = "etm_interpreter"
  /\ UNCHANGED <<trainVars, evalVars, extraVars>>
  /\ IF files[etm.tflite_path].exists
     THEN \/ /\ interp' = files[etm.tflite_path]
             /\ Step("interpreter", "etm_dataset")
          \/ /\ Raise("RuntimeError", "etm_dataset")
             /\ UNCHANGED interp
     ELSE /\ Raise("ValueError", "etm_dataset")
          /\ UNCHANGED interp
  /\ UNCHANGED <<quantVars, etm, ds_len, evaluated, correct, total, accuracy, bench>>

\* image_dataset_from_directory(test_data_dir, batch_size=1); correct = total = 0
\* (a directory without images: the loader raises or yields nothing,
\* depending on the framework's version)
EtmLoadDataset ==
  /\ pc = "etm_dataset"
  /\ UNCHANGED <<trainVars, evalVars, extraVars>>
  /\ \/ /\ \E n \in 0..MaxSamples : ds_len' = n
        /\ correct' = 0 /\ total' = 0
        /\ Step("load_test", "etm_loop")
     \/ /\ Raise("ValueError", "etm_loop")
        /\ UNCHANGED <<ds_len, correct, total>>
  /\ UNCHANGED <<quantVars, etm, interp, evaluated, accuracy, bench>>

\* one iteration of the loop: inference on the next image and the count
EtmIterate ==
  /\ pc = "etm_loop"
  /\ UNCHANGED <<trainVars, evalVars, extraVars>>
  /\ ~LoopOver
  /\ \/ \E label \in Classes, out \in Outputs :
          /\ correct' = IF PredictedClass(out, interp) = TrueClass(label)
                        THEN correct + 1 ELSE correct
          /\ total' = total + 1
          /\ evaluated' = Append(evaluated,
                 [label |-> label, predicted |-> PredictedClass(out, interp)])
          /\ UNCHANGED ctlVars
     \/ /\ Raise("RuntimeError", "etm_loop")
        /\ UNCHANGED <<correct, total, evaluated>>
  /\ UNCHANGED <<quantVars, etm, interp, ds_len, accuracy, bench>>

\* the loop is over: accuracy = correct / total, print, return
EtmReturn ==
  /\ pc = "etm_loop"
  /\ UNCHANGED <<trainVars, evalVars, extraVars>>
  /\ LoopOver
  /\ IF total = 0
     THEN /\ Raise("ZeroDivisionError", AfterEvaluate(entry, args))
          /\ UNCHANGED accuracy
     ELSE /\ accuracy' = Divide(correct, total)
          /\ Step("evaluate_return", AfterEvaluate(entry, args))
  /\ UNCHANGED <<quantVars, etm, interp, ds_len, evaluated, correct, total, bench>>

\* ----------------------------------------------- benchmark_inference_time
\* the interpreter and the dummy input
BmInterpreter ==
  /\ pc = "bm_interpreter"
  /\ UNCHANGED <<trainVars, evalVars, callbackVars, builder, fnVars>>
  /\ bm_path' = tflite_path
  /\ \/ Step("bm_interpreter", "bm_run")
     \/ Raise("RuntimeError", "bm_run")
  /\ UNCHANGED <<quantVars, etmVars>>

\* warm-up runs, timed runs, the mean
BmRun ==
  /\ pc = "bm_run"
  /\ UNCHANGED <<trainVars, evalVars, extraVars>>
  /\ \/ /\ bench' = TRUE
        /\ Step("benchmark", "done")
     \/ /\ Raise("RuntimeError", "done")
        /\ UNCHANGED bench
  /\ UNCHANGED <<quantVars, etm, interp, ds_len, evaluated, correct, total, accuracy>>

\* ------------------------------------------------------------ train_model
\* load_config, setup_logging, the seeds
TmLoadConfig ==
  /\ TrainStep("load_config")
  /\ UNCHANGED <<quantVars, etmVars, trainVars, evalVars, extraVars>>

\* load_dataset and, when enabled, compute_class_weights
TmLoadDataset ==
  /\ TrainStep("load_dataset")
  /\ UNCHANGED <<quantVars, etmVars, trainVars, evalVars, extraVars>>

\* get_model: the builder for the architecture, or ValueError
TmGetModel ==
  /\ pc = "get_model"
  /\ IF KnownArchitecture(config.architecture)
     THEN \/ /\ layers' = CreateModel
             /\ builder' = Builder(config.architecture)
             /\ Step("get_model", AfterGetModel(entry, config))
          \/ /\ Raise("FrameworkError", AfterGetModel(entry, config))
             /\ UNCHANGED <<layers, builder>>
     ELSE /\ Raise("ValueError", AfterGetModel(entry, config))
          /\ UNCHANGED <<layers, builder>>
  /\ UNCHANGED <<config, unfreeze_from, lr, fits, epoch, saved>>
  /\ UNCHANGED <<quantVars, etmVars, evalVars, bm_path, callbackVars, fnVars>>

\* compile_model with optimizer.learning_rate
TmCompile ==
  /\ pc = "compile"
  /\ \/ /\ lr' = "learning_rate"
        /\ Step("compile", TrainNext("compile", config))
     \/ /\ Raise("FrameworkError", TrainNext("compile", config))
        /\ UNCHANGED lr
  /\ UNCHANGED <<config, layers, unfreeze_from, fits, epoch, saved>>
  /\ UNCHANGED <<quantVars, etmVars, evalVars, extraVars>>

\* setup_callbacks: ModelCheckpoint
ScCheckpoint ==
  CallbackBlock("setup_callbacks", "checkpoint", TRUE, TRUE,
                "sc_early_stopping")
\* setup_callbacks: EarlyStopping
ScEarlyStopping ==
  CallbackBlock("sc_early_stopping", "early_stopping", TRUE, FALSE,
                "sc_lr_schedule")
\* setup_callbacks: ReduceLROnPlateau
ScLrSchedule ==
  /\ pc = "sc_lr_schedule"
  /\ callbacks' =
       IF Get(cb_config.lr_schedule, "None") = "reduce_on_plateau"
       THEN Append(callbacks, "lr_schedule") ELSE callbacks
  /\ pc' = "sc_tensorboard"
  /\ UNCHANGED <<entry, raised, trace, bm_path, cb_config, builder, fnVars>>
  /\ UNCHANGED <<quantVars, etmVars, trainVars, evalVars>>
\* setup_callbacks: TensorBoard
ScTensorboard ==
  CallbackBlock("sc_tensorboard", "tensorboard", FALSE, TRUE,
                "sc_csv_logger")
\* setup_callbacks: CSVLogger
ScCsvLogger ==
  CallbackBlock("sc_csv_logger", "csv_logger", TRUE, TRUE, "sc_return")
\* setup_callbacks: return callbacks
ScReturn ==
  /\ pc = "sc_return"
  /\ Step("setup_callbacks", AfterSetup(entry, config))
  /\ UNCHANGED <<quantVars, etmVars, trainVars, evalVars, extraVars>>

\* the epochs argument and the initial_epoch argument of each fit call
FitRequest_Restart(phase, cfg) ==
  [phase |-> phase, initial_epoch |-> 0,
   epochs |-> IF phase = "fit1" THEN InitialEpochs(cfg) ELSE cfg.epochs]
FitRequest(phase, cfg) ==
  IF phase = "fit1"
  THEN [phase |-> phase, initial_epoch |-> 0, epochs |-> InitialEpochs(cfg)]
  ELSE [phase |-> phase, initial_epoch |-> InitialEpochs(cfg),
        epochs |-> cfg.epochs]

\* model.fit is entered: the model trains as compiled, with the layers'
\* trainable flags as they are
TmFitStart ==
  /\ pc \in {"fit1", "fit2"}
  /\ LET r == FitRequest(pc, config)
     IN  /\ fits' = Append(fits, [phase |-> r.phase,
                                  initial_epoch |-> r.initial_epoch,
                                  epochs |-> r.epochs, lr |-> lr,
                                  layers |-> layers, ran |-> 0])
         /\ epoch' = r.initial_epoch
  /\ pc' = IF pc = "fit1" THEN "fit1_running" ELSE "fit2_running"
  /\ UNCHANGED <<entry, raised, trace>>
  /\ UNCHANGED <<config, layers, unfreeze_from, lr, saved>>
  /\ UNCHANGED <<quantVars, etmVars, evalVars, extraVars>>

\* the phase whose fit is running
RunningPhase == IF pc = "fit1_running" THEN "fit1" ELSE "fit2"

\* one epoch of the running fit
TmFitEpoch ==
  /\ pc \in {"fit1_running", "fit2_running"}
  /\ epoch < fits[Len(fits)].epochs
  /\ \/ /\ epoch' = epoch + 1
        /\ fits' = [fits EXCEPT ![Len(fits)].ran = @ + 1]
        /\ UNCHANGED ctlVars
     \/ /\ Raise("FrameworkError", TrainNext(RunningPhase, config))
        /\ UNCHANGED <<epoch, fits>>
  /\ UNCHANGED <<config, layers, unfreeze_from, lr, saved>>
  /\ UNCHANGED <<quantVars, etmVars, evalVars, extraVars>>

\* fit returns: the epochs are done, or a callback stopped the training
TmFitReturn ==
  /\ pc \in {"fit1_running", "fit2_running"}
  /\ epoch >= fits[Len(fits)].epochs \/ fits[Len(fits)].ran >= 1
  /\ Step(RunningPhase, TrainNext(RunningPhase, config))
  /\ UNCHANGED <<quantVars, etmVars, trainVars, evalVars, extraVars>>

\* unfreeze_base_model(base_model, freeze_until_layer); as an entry point,
\* with the argument it was called with
TmUnfreeze ==
  /\ pc = "unfreeze"
  /\ LET k == IF entry = "train_model"
              THEN Get(config.freeze_until_layer, DefaultFreezeUntilLayer)
              ELSE unfreeze_from
     IN  /\ unfreeze_from' = k
         /\ layers' = UnfreezeBaseModel(layers, k)
  /\ Step("unfreeze", IF entry = "train_model"
                      THEN TrainNext("unfreeze", config) ELSE "done")
  /\ UNCHANGED <<config, lr, fits, epoch, saved>>
  /\ UNCHANGED <<quantVars, etmVars, evalVars, extraVars>>

\* model.compile with Adam(fine_tune_learning_rate)
TmRecompile ==
  /\ pc = "recompile"
  /\ \/ /\ lr' = "fine_tune_learning_rate"
        /\ Step("recompile", TrainNext("recompile", config))
     \/ /\ Raise("FrameworkError", TrainNext("recompile", config))
        /\ UNCHANGED lr
  /\ UNCHANGED <<config, layers, unfreeze_from, fits, epoch, saved>>
  /\ UNCHANGED <<quantVars, etmVars, evalVars, extraVars>>

\* if "<format>" in config["export"]["formats"]: model.save(path)
TmSave ==
  /\ pc \in {"save_h5", "save_saved_model"}
  /\ LET format == IF pc = "save_h5" THEN "h5" ELSE "saved_model"
     IN  IF format \in config.formats
         THEN \/ /\ saved' = saved \cup {format}
                 /\ Step(pc, TrainNext(pc, config))
              \/ /\ Raise("FrameworkError", TrainNext(pc, config))
                 /\ UNCHANGED saved
         ELSE /\ pc' = TrainNext(pc, config)
              /\ UNCHANGED <<entry, raised, trace, saved>>
  /\ UNCHANGED <<config, layers, unfreeze_from, lr, fits, epoch>>
  /\ UNCHANGED <<quantVars, etmVars, evalVars, extraVars>>

\* return model, history1
TmReturn ==
  /\ pc = "train_return"
  /\ Step("train_return", "done")
  /\ UNCHANGED <<quantVars, etmVars, trainVars, evalVars, extraVars>>

\* --------------------------------------------------------- evaluate_model
\* load_config
EmLoadConfig ==
  /\ EvalStep("em_load_config")
  /\ UNCHANGED <<quantVars, etmVars, trainVars, evalVars, extraVars>>

\* keras.models.load_model(model_path)
EmLoadModel ==
  /\ EvalStep("em_load_model")
  /\ UNCHANGED <<quantVars, etmVars, trainVars, evalVars, extraVars>>

\* load_test_dataset: the class directories and the images of test_dir
EmLoadTest ==
  /\ pc = "em_load_test"
  /\ \/ /\ \E n \in 1..NumClasses : class_names' = Range(n)
        /\ \E k \in 0..MaxSamples : n_images' = k
        /\ y_true' = <<>> /\ y_pred' = <<>>
        /\ Step("em_load_test", EvalNext("em_load_test"))
     \/ /\ Raise("ValueError", EvalNext("em_load_test"))
        /\ UNCHANGED <<class_names, n_images, y_true, y_pred>>
  /\ UNCHANGED <<batch_size, metrics, csv, cm, artifacts>>
  /\ UNCHANGED <<quantVars, etmVars, trainVars, extraVars>>

\* images left for the next batch
BatchLen ==
  IF n_images - Len(y_true) < batch_size THEN n_images - Len(y_true)
  ELSE batch_size

\* one batch: model.predict, argmax of the predictions and of the labels
EmPredictBatch ==
  /\ pc = "em_predict"
  /\ Len(y_true) < n_images
  /\ \/ \E labels \in [1..BatchLen -> 0..(Len(class_names) - 1)],
           preds \in [1..BatchLen -> Predictions] :
          /\ y_pred' = y_pred \o preds
          /\ y_true' = y_true \o [i \in 1..BatchLen |->
                                    NpArgMax(OneHot(labels[i], Len(class_names)))]
          /\ UNCHANGED ctlVars
     \/ /\ Raise("FrameworkError", "em_predict")
        /\ UNCHANGED <<y_true, y_pred>>
  /\ UNCHANGED <<class_names, n_images, batch_size, metrics, csv, cm, artifacts>>
  /\ UNCHANGED <<quantVars, etmVars, trainVars, extraVars>>

\* the dataset is exhausted: y_pred and y_true become arrays
EmPredictDone ==
  /\ pc = "em_predict"
  /\ Len(y_true) >= n_images
  /\ Step("em_predict", EvalNext("em_predict"))
  /\ UNCHANGED <<quantVars, etmVars, trainVars, evalVars, extraVars>>

\* accuracy_score and the per-class, macro and weighted metrics
EmMetrics ==
  /\ pc = "em_metrics"
  /\ \/ /\ LET m == PrecisionRecallFscoreSupport(y_true, y_pred,
                                                  PerClassLabels(class_names))
           IN  metrics' = [set |-> TRUE,
                           accuracy |-> AccuracyScore(y_true, y_pred),
                           precision |-> m.precision, recall |-> m.recall,
                           f1 |-> m.f1, support |-> m.support]
        /\ Step("em_metrics", EvalNext("em_metrics"))
     \/ /\ Raise("FrameworkError", EvalNext("em_metrics"))
        /\ UNCHANGED metrics
  /\ UNCHANGED <<class_names, n_images, batch_size, y_true, y_pred, csv, cm,
                 artifacts>>
  /\ UNCHANGED <<quantVars, etmVars, trainVars, extraVars>>

\* print(classification_report(y_true, y_pred, target_names=class_names))
EmClassificationReport ==
  /\ pc = "em_classification_report"
  /\ IF ClassificationReportRaises(y_true, y_pred, class_names)
     THEN Raise("ValueError", EvalNext("em_classification_report"))
     ELSE Step("em_classification_report", EvalNext("em_classification_report"))
  /\ UNCHANGED <<quantVars, etmVars, trainVars, evalVars, extraVars>>

\* the metrics DataFrame and f1_scores.csv
EmSaveCsv ==
  /\ pc = "em_csv"
  /\ IF DataFrameRaises(class_names, metrics)
     THEN /\ Raise("ValueError", EvalNext("em_csv"))
          /\ UNCHANGED csv
     ELSE /\ csv' = [set |-> TRUE, rows |-> MetricsTable(class_names, metrics)]
          /\ Step("em_csv", EvalNext("em_csv"))
  /\ UNCHANGED <<class_names, n_images, batch_size, y_true, y_pred, metrics,
                 cm, artifacts>>
  /\ UNCHANGED <<quantVars, etmVars, trainVars, extraVars>>

\* cm = confusion_matrix(y_true, y_pred)
EmConfusionMatrix ==
  /\ pc = "em_confusion_matrix"
  /\ cm' = ConfusionMatrix(y_true, y_pred)
  /\ Step("em_confusion_matrix", EvalNext("em_confusion_matrix"))
  /\ UNCHANGED <<class_names, n_images, batch_size, y_true, y_pred, metrics,
                 csv, artifacts>>
  /\ UNCHANGED <<quantVars, etmVars, trainVars, extraVars>>

\* plot_confusion_matrix, then generate_performance_report
EmWriteArtifact ==
  /\ pc \in {"em_plot", "em_performance_report"}
  /\ \/ /\ artifacts' = artifacts \cup
             {IF pc = "em_plot" THEN "confusion_matrix.png"
              ELSE "performance_analysis.md"}
        /\ Step(pc, EvalNext(pc))
     \/ /\ Raise("FrameworkError", EvalNext(pc))
        /\ UNCHANGED artifacts
  /\ UNCHANGED <<class_names, n_images, batch_size, y_true, y_pred, metrics,
                 csv, cm>>
  /\ UNCHANGED <<quantVars, etmVars, trainVars, extraVars>>

\* return the dictionary of results
EmReturn ==
  /\ pc = "em_return"
  /\ Step("em_return", "done")
  /\ UNCHANGED <<quantVars, etmVars, trainVars, evalVars, extraVars>>

\* ------------------------------------------------ compute_class_weights
\* list the class directories and count the images of each
CcwCount ==
  /\ pc = "ccw_count"
  /\ \/ /\ class_counts' = ClassCounts(data_dir)
        /\ Step("ccw_count", "ccw_weights")
     \/ /\ Raise("OSError", "ccw_weights")
        /\ UNCHANGED class_counts
  /\ UNCHANGED <<data_dir, class_weights, genVars, cnVars>>
  /\ UNCHANGED <<bm_path, callbackVars, builder>>
  /\ UNCHANGED <<quantVars, etmVars, trainVars, evalVars>>

\* total and the dictionary of weights; return class_weights
CcwWeights ==
  /\ pc = "ccw_weights"
  /\ IF DivisionRaises(class_counts)
     THEN /\ Raise("ZeroDivisionError", "done")
          /\ UNCHANGED class_weights
     ELSE /\ class_weights' =
               LET n == Cardinality(DOMAIN class_counts)
                   tot == SumValues(class_counts, n)
               IN [i \in DOMAIN class_counts |->
                     ClassWeight(tot, n, class_counts[i])]
          /\ Step("compute_class_weights", "done")
  /\ UNCHANGED <<data_dir, class_counts, genVars, cnVars>>
  /\ UNCHANGED <<bm_path, callbackVars, builder>>
  /\ UNCHANGED <<quantVars, etmVars, trainVars, evalVars>>

\* -------------------------------------- representative_dataset_generator
\* image_dataset_from_directory(data_dir, batch_size=1, shuffle=True); with
\* no image under data_dir it raises or gives an empty dataset, depending
\* on the library version
GenLoad ==
  /\ pc = "gen_load"
  /\ \/ Step("gen_load", "gen_loop")
     \/ Raise("ValueError", "gen_loop")
  /\ UNCHANGED <<ccwVars, genVars, cnVars>>
  /\ UNCHANGED <<bm_path, callbackVars, builder>>
  /\ UNCHANGED <<quantVars, etmVars, trainVars, evalVars>>

\* one turn of "for images, _ in dataset": break, or yield [images / 255.0]
GenIterate ==
  /\ pc = "gen_loop"
  /\ \E img \in NotFetched(gen_dataset, gen_fetched) :
       /\ gen_fetched' = Append(gen_fetched, img)
       /\ IF BreakNow(gen_count, gen_num_samples)
          THEN /\ pc' = "gen_end"
               /\ UNCHANGED <<gen_count, gen_yielded>>
          ELSE /\ gen_yielded' =
                    Append(gen_yielded, <<Normalize(BatchOfOne(img))>>)
               /\ gen_count' = gen_count + 1
               /\ pc' = "gen_loop"
  /\ UNCHANGED <<entry, raised, trace, gen_dataset, gen_num_samples>>
  /\ UNCHANGED <<ccwVars, cnVars, bm_path, callbackVars, builder>>
  /\ UNCHANGED <<quantVars, etmVars, trainVars, evalVars>>

\* the dataset is exhausted: the for loop ends
GenExhausted ==
  /\ pc = "gen_loop"
  /\ NotFetched(gen_dataset, gen_fetched) = {}
  /\ pc' = "gen_end"
  /\ UNCHANGED <<entry, raised, trace, extraVars>>
  /\ UNCHANGED <<quantVars, etmVars, trainVars, evalVars>>

\* the generator function returns: iteration stops
GenReturn ==
  /\ pc = "gen_end"
  /\ Step("generator_return", "done")
  /\ UNCHANGED <<quantVars, etmVars, trainVars, evalVars, extraVars>>

\* ------------------------------------ save_class_names, load_class_names
CnSave ==
  /\ pc = "cn_save"
  /\ IF MakedirsRaises(Dirname(cn_path))
     THEN /\ Raise("FileNotFoundError", "cn_load")
          /\ UNCHANGED cn_file
     ELSE \/ /\ cn_file' = [exists |-> TRUE, text |-> WriteNames(cn_names)]
             /\ Step("save_class_names", "cn_load")
          \/ /\ Raise("OSError", "cn_load")
             /\ UNCHANGED cn_file
  /\ UNCHANGED <<cn_names, cn_path, cn_loaded, ccwVars, genVars>>
  /\ UNCHANGED <<bm_path, callbackVars, builder>>
  /\ UNCHANGED <<quantVars, etmVars, trainVars, evalVars>>

CnLoad ==
  /\ pc = "cn_load"
  /\ IF cn_file.exists
     THEN /\ cn_loaded' = LoadNames(cn_file.text)
          /\ Step("load_class_names", "done")
     ELSE /\ Raise("FileNotFoundError", "done")
          /\ UNCHANGED cn_loaded
  /\ UNCHANGED <<cn_names, cn_path, cn_file, ccwVars, genVars>>
  /\ UNCHANGED <<bm_path, callbackVars, builder>>
  /\ UNCHANGED <<quantVars, etmVars, trainVars, evalVars>>

Next ==
  \/ EmLoadConfig \/ EmLoadModel \/ EmLoadTest \/ EmPredictBatch
  \/ EmPredictDone \/ EmMetrics \/ EmClassificationReport \/ EmSaveCsv
  \/ EmConfusionMatrix \/ EmWriteArtifact \/ EmReturn
  \/ TmLoadConfig \/ TmLoadDataset \/ TmGetModel \/ TmCompile
  \/ ScCheckpoint \/ ScEarlyStopping \/ ScLrSchedule \/ ScTensorboard
  \/ ScCsvLogger \/ ScReturn \/ TmFitStart \/ TmFitEpoch \/ TmFitReturn
  \/ TmUnfreeze \/ TmRecompile \/ TmSave \/ TmReturn
  \/ MainParse \/ CvLoadModel \/ CvConfigure \/ CvConvert \/ CvSave \/ CvReturn
  \/ EtmInterpreter \/ EtmLoadDataset \/ EtmIterate \/ EtmReturn
  \/ BmInterpreter \/ BmRun
  \/ CcwCount \/ CcwWeights
  \/ GenLoad \/ GenIterate \/ GenExhausted \/ GenReturn
  \/ CnSave \/ CnLoad

Spec == Init /\ [][Next]_vars

\* ================================================================ claims
\* the step `name` has completed
Did(name) == \E i \in 1..Len(trace) : trace[i] = name
\* the position of the first completion of `name` in trace (0: never)
PosOf(name) ==
  IF Did(name) THEN CHOOSE i \in 1..Len(trace) :
                      trace[i] = name /\ \A j \in 1..(i - 1) : trace[j] # name
  ELSE 0
\* the quantization mode is full-integer
FullInteger == call.quantize /\ Truthy(call.representative_data_dir)

\* C1 (as claimed): once converter.convert() has succeeded, the converted
\* bytes are written to output_path and convert_to_tflite returns
\* output_path, for every output_path, a bare file name included.
C1_OutputFileExists ==
  (Did("convert") /\ pc # "cv_save") =>
     /\ files[call.output_path] = tflite_model
     /\ pc # "cv_return" => tflite_path = call.output_path

\* C2 (as claimed): evaluate_tflite_model returns an accuracy in [0,1] for
\* every test set and every num_samples >= 0: in the loop
\* 0 <= correct <= total <= num_samples, and once the loop is left without
\* an inference error the value correct / total has been returned.
C2_AccuracyInUnitInterval ==
  Did("load_test") =>
     /\ 0 <= correct /\ correct <= total /\ total <= etm.num_samples
     /\ (pc # "etm_loop" /\ raised # "RuntimeError") =>
          /\ accuracy.set
          /\ accuracy.num = correct /\ accuracy.den = total
          /\ 0 <= accuracy.num /\ accuracy.num <= accuracy.den
          /\ accuracy.den > 0

\* the evaluated samples whose predicted class is their true class
TrulyCorrect ==
  Cardinality({i \in 1..Len(evaluated) :
                 evaluated[i].predicted = evaluated[i].label})

\* C3 (as claimed): the accuracy returned by evaluate_tflite_model is the
\* number of evaluated samples whose predicted class equals the sample's
\* true class label, divided by the number of evaluated samples.
C3_TrueAccuracy ==
  accuracy.set =>
     /\ accuracy.num = TrulyCorrect
     /\ accuracy.den = Len(evaluated)

\* C4: the converter's inference input and output types are uint8, with
\* INT8-only builtin ops and a representative dataset, exactly when
\* quantize is true and representative_data_dir is given; quantize alone
\* sets only the default optimization; without quantize nothing is set;
\* and the converted model that is written has that input dtype.
C4_InputDtypeMatchesMode ==
  Did("configure") =>
     /\ converter.inference_input_type = "uint8" <=> FullInteger
     /\ converter.inference_output_type = "uint8" <=> FullInteger
     /\ converter.supported_ops = {"TFLITE_BUILTINS_INT8"} <=> FullInteger
     /\ converter.representative_dataset # "None" <=> FullInteger
     /\ ~FullInteger =>
          /\ converter = [NewConverter EXCEPT !.optimizations =
                            IF call.quantize THEN {"DEFAULT"} ELSE {}]
          /\ converter.inference_input_type = "float32"
     /\ converter.optimizations = {"DEFAULT"} <=> call.quantize
     /\ Did("write") =>
          files[call.output_path].input_dtype =
             IF FullInteger THEN "uint8" ELSE "float32"

\* a full-integer conversion has written a uint8 model
C4_Witness ==
  /\ Did("write") /\ FullInteger
  /\ files[call.output_path].input_dtype = "uint8"

\* C10 (as claimed): convert_to_tflite is called with quantize true when
\* --quantize is given and with quantize false when the flag is omitted.
C10_QuantizeFlagSelects ==
  (entry = "quant_main" /\ Did("parse_args")) =>
     call.quantize = argv.quantize

\* no backbone layer is trainable
AllFrozen(ls) == \A i \in DOMAIN ls : ~ls[i]

\* C6 (as claimed): for every configuration with which train_model runs to
\* completion the model is fitted in two phases: phase 1 with every
\* backbone layer frozen, then a fine-tune phase.
C6_AlwaysTwoPhases ==
  (entry = "train_model" /\ Did("train_return")) =>
     /\ Len(fits) = 2
     /\ AllFrozen(fits[1].layers)
     /\ fits[2].lr = "fine_tune_learning_rate"

\* C6 (amended): phase 1 is fitted with every backbone layer frozen and no
\* backbone layer is trainable before phase 1's fit returns; a fine-tune
\* fit follows exactly when training.freeze_base is true or absent, only
\* after unfreeze_base_model and the recompile with the fine-tune learning
\* rate; with freeze_base false a completed run has fitted phase 1 only.
C6_TwoPhasesWhenFreezeBase ==
  entry = "train_model" =>
     /\ ~Did("fit1") => AllFrozen(layers)
     /\ Len(fits) >= 1 =>
          /\ fits[1].phase = "fit1"
          /\ AllFrozen(fits[1].layers)
          /\ fits[1].lr = "learning_rate"
     /\ Len(fits) >= 2 =>
          /\ Len(fits) = 2 /\ FineTune(config)
          /\ fits[2].phase = "fit2"
          /\ 0 < PosOf("fit1") /\ PosOf("fit1") < PosOf("unfreeze")
          /\ PosOf("unfreeze") < PosOf("recompile")
          /\ fits[2].lr = "fine_tune_learning_rate"
          /\ fits[2].layers = UnfreezeBaseModel(fits[1].layers, unfreeze_from)
     /\ Did("train_return") =>
          Len(fits) = IF FineTune(config) THEN 2 ELSE 1

\* a completed run that fine-tuned with part of the backbone unfrozen
C6_Witness ==
  /\ entry = "train_model" /\ Did("train_return") /\ Len(fits) = 2
  /\ fits[2].ran >= 1 /\ ~AllFrozen(fits[2].layers)
  /\ AllFrozen(fits[1].layers) /\ fits[1].ran >= 1

\* the order of train_model's steps
TrainOrder ==
  <<"load_config", "load_dataset", "get_model", "compile", "setup_callbacks",
    "fit1", "unfreeze", "recompile", "fit2", "save_h5", "save_saved_model",
    "train_return">>
Rank(name) == CHOOSE i \in 1..Len(TrainOrder) : TrainOrder[i] = name
\* every fit phase the configuration asks for has returned
FitsCompleted ==
  Did("fit1") /\ (FineTune(config) => Did("fit2")) /\ Len(fits) <= 2

\* C7: train_model runs load config, load datasets, build model, compile,
\* fit, save in this order, each step after the previous one returned; the
\* final model is saved only after every fit phase that runs has
\* completed, and nothing is saved before or during fitting.
C7_PhasesInOrder ==
  entry = "train_model" =>
     /\ \A i, j \in 1..Len(trace) :
          i < j => Rank(trace[i]) < Rank(trace[j])
     /\ Did("load_dataset") => Did("load_config")
     /\ Did("get_model") => Did("load_dataset")
     /\ Did("compile") => Did("get_model")
     /\ Len(fits) >= 1 => Did("compile")
     /\ (pc \in {"save_h5", "save_saved_model", "train_return"}
           \/ Did("save_h5") \/ Did("save_saved_model") \/ saved # {})
          => FitsCompleted
     /\ pc \in {"fit1", "fit1_running", "fit2", "fit2_running"} => saved = {}

\* a run that fitted both phases and then saved both formats
C7_Witness ==
  /\ entry = "train_model" /\ Did("train_return")
  /\ saved = {"h5", "saved_model"} /\ Len(fits) = 2 /\ fits[2].ran >= 1

\* C9: after unfreeze_base_model(base_model, k) with 0 <= k <= n, layer i
\* is trainable if and only if i >= k, so n - k layers are trainable and
\* none for k = n, whatever the flags were before.
C9_UnfreezeFromK ==
  (Did("unfreeze") /\ 0 <= unfreeze_from /\ unfreeze_from <= Len(layers)) =>
     /\ \A i \in 0..(Len(layers) - 1) : layers[i + 1] <=> i >= unfreeze_from
     /\ TrainableCount(layers) = Len(layers) - unfreeze_from
     /\ unfreeze_from = Len(layers) => AllFrozen(layers)

\* the call has frozen a first layer and unfrozen a last one
C9_Witness ==
  /\ entry = "unfreeze_base_model" /\ Did("unfreeze")
  /\ 0 < unfreeze_from /\ unfreeze_from < Len(layers)
  /\ ~layers[1] /\ layers[Len(layers)]

\* C5: in evaluate_model the per-class precision, recall, F1 and support
\* arrays each have length len(class_names), whatever the true labels and
\* the predictions are, and f1_scores.csv has exactly one row per class.
C5_PerClassLengths ==
  entry = "evaluate_model" =>
     /\ metrics.set =>
          /\ Len(metrics.precision) = Len(class_names)
          /\ Len(metrics.recall) = Len(class_names)
          /\ Len(metrics.f1) = Len(class_names)
          /\ Len(metrics.support) = Len(class_names)
     /\ csv.set =>
          /\ Len(csv.rows) = Len(class_names)
          /\ \A i \in 1..Len(class_names) : csv.rows[i].Class = class_names[i]

\* the table was written although a class has no true sample
C5_Witness ==
  /\ entry = "evaluate_model" /\ csv.set /\ Len(csv.rows) = Len(class_names)
  /\ \E i \in 1..Len(class_names) :
       /\ SupportCount(y_true, class_names[i]) = 0
       /\ metrics.support[i] = 0

\* C8: no error is caught or recovered from: once a step of train_model,
\* evaluate_model or the quantization script has raised, the script is in
\* its error state and no later step executes, so nothing changes any
\* more: no model is saved after a failed fit, nothing is evaluated or
\* benchmarked after a failed conversion, no result file is written after
\* a failed prediction.
C8_NoRecovery ==
  /\ [](raised # "none" => pc = "error")
  /\ [][raised # "none" => UNCHANGED vars]_vars
  /\ []((raised # "none" /\ entry = "train_model" /\ ~FitsCompleted)
          => saved = {})
  /\ []((raised # "none" /\ entry = "quant_main" /\ ~Did("convert_return"))
          => (~accuracy.set /\ ~bench /\ ~Did("interpreter")))
  /\ []((raised # "none" /\ entry = "evaluate_model" /\ ~Did("em_predict"))
          => (~csv.set /\ ~cm.set /\ artifacts = {}))

\* a fit of train_model failed after an epoch and nothing was saved
C8_Witness ==
  /\ entry = "train_model" /\ raised # "none" /\ pc = "error"
  /\ Len(fits) = 1 /\ fits[1].ran >= 1 /\ ~Did("fit1") /\ saved = {}

\* ------------------------------------------------------------------- C11
\* how often a step was completed
Count(name) == Cardinality({i \in 1..Len(trace) : trace[i] = name})
\* main has called evaluate_tflite_model / benchmark_inference_time
EvaluationCalled == etm # NoEtm
BenchmarkCalled == bm_path # <<>>

\* C11: in main of the quantization script the conversion runs first and
\* exactly once; evaluate_tflite_model is called if and only if --evaluate
\* and a --test_data value are both given; benchmark_inference_time is
\* called if and only if --benchmark is given; the evaluation is over
\* before the benchmark starts; both get the path the conversion returned.
C11_MainOrder ==
  entry = "quant_main" =>
    /\ Count("convert") <= 1 /\ Count("convert_return") <= 1
    /\ (EvaluationCalled \/ BenchmarkCalled) => Did("convert_return")
    /\ Did("convert_return") =>
         (EvaluationCalled <=> (args.evaluate /\ Truthy(args.test_data)))
    /\ BenchmarkCalled => args.benchmark
    /\ (pc = "done" /\ args.benchmark) => BenchmarkCalled
    /\ (BenchmarkCalled /\ EvaluationCalled) =>
         /\ Did("evaluate_return")
         /\ Did("bm_interpreter") =>
              PosOf("evaluate_return") < PosOf("bm_interpreter")
    /\ EvaluationCalled => etm.tflite_path = tflite_path
    /\ BenchmarkCalled => bm_path = tflite_path
    /\ Did("convert_return") => tflite_path = args.output_path

C11_Witness ==
  /\ entry = "quant_main" /\ pc = "done" /\ raised = "none"
  /\ Did("evaluate_return") /\ Did("benchmark")
  /\ EvaluationCalled /\ BenchmarkCalled

\* ------------------------------------------------------------------- C12
\* the callbacks that are enabled when their section is absent
DefaultEnabled == {"checkpoint", "early_stopping", "csv_logger"}
\* one of their sections is absent from the configuration
MissingDefaultSection ==
  \E n \in DefaultEnabled : n \notin DOMAIN CallbackConfig(cb_config)
\* setup_callbacks is about to handle the section `name`, which is absent
AtAbsent(at, name) ==
  pc = at /\ name \notin DOMAIN CallbackConfig(cb_config)
\* the block is skipped: nothing is appended, nothing is raised
Skipped(next) ==
  pc' = next /\ raised' = "none" /\ callbacks' = callbacks

\* C12: when the section of checkpoint, early_stopping or csv_logger is
\* absent, setup_callbacks never returns a list, and on reaching the block
\* of an absent one of these it raises KeyError; an absent tensorboard or
\* lr_schedule section is skipped without any error.
C12_DefaultEnabledNeedSection ==
  /\ [](MissingDefaultSection => ~Did("setup_callbacks"))
  /\ [][/\ AtAbsent("setup_callbacks", "checkpoint")
           => raised' = "KeyError" /\ pc' = "error"
        /\ AtAbsent("sc_early_stopping", "early_stopping")
           => raised' = "KeyError" /\ pc' = "error"
        /\ AtAbsent("sc_csv_logger", "csv_logger")
           => raised' = "KeyError" /\ pc' = "error"
        /\ AtAbsent("sc_tensorboard", "tensorboard")
           => Skipped("sc_csv_logger")
        /\ (pc = "sc_lr_schedule" /\ ~cb_config.lr_schedule.present)
           => Skipped("sc_tensorboard")]_vars

\* KeyError for an absent section after other callbacks had been built,
\* with no tensorboard and no lr_schedule section in the configuration
C12_Witness ==
  /\ entry = "setup_callbacks" /\ raised = "KeyError"
  /\ "checkpoint" \in DOMAIN CallbackConfig(cb_config) /\ cb_config.export
  /\ "early_stopping" \in DOMAIN CallbackConfig(cb_config)
  /\ "csv_logger" \notin DOMAIN CallbackConfig(cb_config)
  /\ "tensorboard" \notin DOMAIN CallbackConfig(cb_config)
  /\ ~cb_config.lr_schedule.present
  /\ Len(callbacks) = 2

\* ------------------------------------------------------------------- C13
\* the spellings of the names get_model accepts
MobileNetSpellings == {"mobilenetv2", "MobileNetV2", "MOBILENETV2"}
EfficientNetSpellings ==
  {"efficientnet", "EfficientNet", "EFFICIENTNET", "efficientnet_lite0",
   "EfficientNet_Lite0"}
\* get_model has been called
GetModelCalled == entry = "get_model" \/ Did("load_dataset")

\* C13: get_model builds with create_mobilenetv2_model for any spelling of
\* "mobilenetv2", with create_efficientnet_model for any spelling of
\* "efficientnet" or "efficientnet_lite0", and for every other name raises
\* ValueError with no model built, after which train_model has compiled,
\* fitted and saved nothing.
C13_Dispatch ==
  entry \in {"get_model", "train_model"} =>
    LET a == config.architecture IN
    /\ (Did("get_model") /\ a \in MobileNetSpellings)
         => builder = "create_mobilenetv2_model"
    /\ (Did("get_model") /\ a \in EfficientNetSpellings)
         => builder = "create_efficientnet_model"
    /\ a \notin MobileNetSpellings \cup EfficientNetSpellings =>
         /\ ~Did("get_model") /\ builder = "none" /\ layers = <<>>
         /\ (GetModelCalled /\ pc = "error") => raised = "ValueError"
         /\ (GetModelCalled /\ pc # "get_model") => pc = "error"
         /\ ~Did("compile") /\ lr = "none" /\ fits = <<>> /\ saved = {}

\* train_model stopped by get_model's ValueError
C13_Witness ==
  /\ entry = "train_model" /\ config.architecture = "resnet50"
  /\ Did("load_dataset") /\ raised = "ValueError" /\ pc = "error"

\* ------------------------------------------------------------------- C14
\* the class directories of data_dir
Dirs == {d \in DOMAIN data_dir : data_dir[d].is_dir}
\* the number of image files (.png, .jpg, .jpeg in any case) of directory d
Images(d) ==
  Cardinality({f \in data_dir[d].files : f.ext \in {".png", ".JPG"}})
\* the index sorted() gives directory d: the number of names before it
IndexOf(d) ==
  LET pos(x) == CHOOSE i \in DOMAIN SortedDirNames : SortedDirNames[i] = x
  IN Cardinality({e \in Dirs : pos(e) < pos(d)})
RECURSIVE TotalImages(_)
TotalImages(S) ==
  IF S = {} THEN 0
  ELSE LET d == CHOOSE x \in S : TRUE IN Images(d) + TotalImages(S \ {d})
\* the sum over classes 0..k-1 of count_i * weight_i, as a fraction
RECURSIVE WeightedSum(_)
WeightedSum(k) ==
  IF k = 0 THEN <<0, 1>>
  ELSE LET r == WeightedSum(k - 1)
           w == class_weights[k - 1]
       IN <<r[1] * w[2] + class_counts[k - 1] * w[1] * r[2], r[2] * w[2]>>

Min(a, b) == IF a <= b THEN a ELSE b

\* C15: representative_dataset_generator never yields more than
\* num_samples items nor more than there are images; every item is a list
\* of one batch of one image, no image twice; iterated to its end it has
\* yielded exactly min(num_samples, number of images) items, so nothing
\* when num_samples is 0.
C15_YieldsMin ==
  entry = "representative_dataset_generator" =>
    /\ Len(gen_yielded) <= gen_num_samples
    /\ Len(gen_yielded) <= Cardinality(gen_dataset)
    /\ gen_num_samples = 0 => gen_yielded = <<>>
    /\ \A i \in DOMAIN gen_yielded :
         /\ Len(gen_yielded[i]) = 1 /\ Len(gen_yielded[i][1]) = 1
         /\ gen_yielded[i][1][1][1] \in gen_dataset
         /\ \A j \in DOMAIN gen_yielded :
              gen_yielded[i] = gen_yielded[j] => i = j
    /\ Did("generator_return") =>
         Len(gen_yielded) = Min(gen_num_samples, Cardinality(gen_dataset))

\* the generator stopped at num_samples with images left over
C15_Witness ==
  /\ entry = "representative_dataset_generator" /\ Did("generator_return")
  /\ gen_num_samples >= 1 /\ gen_num_samples < Cardinality(gen_dataset)
  /\ Len(gen_yielded) = gen_num_samples

\* ------------------------------------------------------------------- C16
\* the name has whitespace at its start or at its end
Surrounded(name) ==
  name # <<>> /\ (Head(name) \in Whitespace \/ name[Len(name)] \in Whitespace)
\* the name holds the character c
Holds(name, c) == \E i \in DOMAIN name : name[i] = c
\* the file was written and read back
RoundTripDone == entry = "class_names" /\ Did("load_class_names")

\* C16 (as claimed): a list whose names hold no line feed and have no
\* whitespace at either end is loaded back unchanged; a list with a name
\* that has such whitespace or holds a line feed is not.
C16_RoundTrip ==
  RoundTripDone =>
    /\ (\A i \in DOMAIN cn_names :
          ~Holds(cn_names[i], LF) /\ ~Surrounded(cn_names[i]))
         => cn_loaded = cn_names
    /\ (\E i \in DOMAIN cn_names :
          Holds(cn_names[i], LF) \/ Surrounded(cn_names[i]))
         => cn_loaded # cn_names

\* C16 (amended): a list whose names hold neither a line feed nor a
\* carriage return and have no whitespace at either end is loaded back
\* unchanged, in the same order; a list with a name that has such
\* whitespace or holds a line feed or a carriage return is not.
C16_RoundTripNoLineBreak ==
  RoundTripDone =>
    /\ (\A i \in DOMAIN cn_names :
          /\ ~Holds(cn_names[i], LF) /\ ~Holds(cn_names[i], CR)
          /\ ~Surrounded(cn_names[i]))
         => cn_loaded = cn_names
    /\ (\E i \in DOMAIN cn_names :
          \/ Holds(cn_names[i], LF) \/ Holds(cn_names[i], CR)
          \/ Surrounded(cn_names[i]))
         => cn_loaded # cn_names

\* two different names, one of them with a space inside, came back
C16_Witness ==
  /\ RoundTripDone /\ Len(cn_names) = 2 /\ cn_names[1] # cn_names[2]
  /\ cn_names[1] = <<"a", SP, "a">> /\ cn_names[2] = <<"a">>
  /\ cn_loaded = cn_names

\* ------------------------------------------------------------------- C17
\* the larger of two numbers
Max(a, b) == IF a >= b THEN a ELSE b
\* training.unfreeze_epoch as the script reads it
UnfreezeEpoch == Get(config.unfreeze_epoch, DefaultUnfreezeEpoch)
\* the epoch indices a fit has trained so far
Trained(f) == f.initial_epoch..(f.initial_epoch + f.ran - 1)

\* C17: the fine-tune fit is asked for the epoch indices unfreeze_epoch ..
\* epochs - 1 whatever phase 1 ran, and trains no other index; both fits
\* together train at most max(unfreeze_epoch, epochs) epochs; when epochs
\* <= unfreeze_epoch the fine-tune fit trains no epoch, after the backbone
\* was unfrozen and the model recompiled.
C17_FineTuneEpochs ==
  (entry = "train_model" /\ Len(fits) >= 2) =>
    /\ fits[2].initial_epoch = UnfreezeEpoch
    /\ fits[2].epochs = config.epochs
    /\ Trained(fits[2]) \subseteq UnfreezeEpoch..(config.epochs - 1)
    /\ Trained(fits[1]) \subseteq 0..(UnfreezeEpoch - 1)
    /\ pc = "fit2_running" => epoch = UnfreezeEpoch + fits[2].ran
    /\ fits[1].ran + fits[2].ran <= Max(UnfreezeEpoch, config.epochs)
    /\ config.epochs <= UnfreezeEpoch =>
         /\ fits[2].ran = 0
         /\ Did("unfreeze") /\ Did("recompile")
         /\ fits[2].layers = UnfreezeBaseModel(fits[1].layers, unfreeze_from)
         /\ fits[2].lr = "fine_tune_learning_rate"
    /\ (Did("fit2") /\ fits[2].ran = 0 /\ raised = "none")
         => config.epochs <= UnfreezeEpoch

\* phase 1 stopped early, and the fine-tune fit returned without an epoch
C17_Witness ==
  /\ entry = "train_model" /\ Did("fit2") /\ Len(fits) = 2
  /\ fits[1].ran >= 1 /\ fits[1].ran < UnfreezeEpoch
  /\ config.epochs >= 1 /\ config.epochs <= UnfreezeEpoch
  /\ fits[2].ran = 0 /\ TrainableCount(fits[2].layers) >= 1

\* ------------------------------------------------------------------- C18
\* evaluate_model, with labels of at least one image, is past the line that
\* computes the confusion matrix, or has stopped on the way to it
PastConfusionMatrix ==
  /\ entry = "evaluate_model" /\ Did("em_metrics") /\ y_true # <<>>
  /\ pc \notin {"em_classification_report", "em_csv", "em_confusion_matrix"}

\* C18 (as claimed): for all true labels and predictions, also when a class
\* occurs in neither, evaluate_model computes a confusion matrix that has
\* len(class_names) rows and len(class_names) columns.
C18_SquareMatrix ==
  PastConfusionMatrix =>
    /\ cm.set
    /\ Len(cm.counts) = Len(class_names)
    /\ \A i \in DOMAIN cm.counts : Len(cm.counts[i]) = Len(class_names)

====
